---------------------------- MODULE Spec2Model ----------------------------
(***************************************************************************)
(* TrackArr (src/src/tensorstore_trackarr/trackarr.py): an in-memory       *)
(* bounding-box index (bboxes_df), a per-label frame-extent table          *)
(* (_track_df), a parent -> daughters dict (splits) and a label ->         *)
(* annotation dict (termnation_annotations) kept beside a labelled         *)
(* (frame, y, x) volume held in a transactional store.                     *)
(*                                                                         *)
(* The store is modelled by two pixel maps: array, the committed volume,   *)
(* and txn, the pending writes of the caller's open transaction (NoWrite   *)
(* where nothing is pending).  A read bound to the transaction sees the    *)
(* pending write over the committed value; a read or write bound to no     *)
(* transaction (with_transaction(None)) goes to the committed volume.      *)
(* Every operation of TrackArr is a pure operator from a state record to   *)
(* a state record, translated statement by statement; an action applies    *)
(* one operator to the current state.  A raised exception is recorded in   *)
(* the field raised together with the partial effects made before it.      *)
(***************************************************************************)
EXTENDS Integers, Sequences, FiniteSets, TLC

\* ------------------------------------------------------------------ bounds
NumFrames == 2
Height == 2
Width == 2
MaxLabel == 3
MaxOps == 1

Frames == 0 .. (NumFrames - 1)
Ys == 0 .. (Height - 1)
Xs == 0 .. (Width - 1)
Labels == 1 .. MaxLabel
Pix == Frames \X Ys \X Xs

\* no pending write at a pixel of the transaction
NoWrite == -1
\* the value of max() + 1 over an empty label index (a float nan)
NaNLabel == -2

\* ------------------------------------------------------------ small helpers
SeqToSet(s) == {s[i] : i \in 1 .. Len(s)}

SetMax(S) == CHOOSE m \in S : \A n \in S : n <= m

SetMin(S) == CHOOSE m \in S : \A n \in S : m <= n

Max2(a, b) == IF a >= b THEN a ELSE b

\* list.remove(x): the first occurrence goes (the caller tests x in s first)
RECURSIVE ListRemove(_, _)
ListRemove(s, x) ==
    IF s = <<>> THEN <<>>
    ELSE IF Head(s) = x THEN Tail(s)
    ELSE <<Head(s)>> \o ListRemove(Tail(s), x)

\* [d for d in daughters if d != x]
ListWithout(s, x) == SelectSeq(s, LAMBDA d : d # x)

\* a set of integers as an ascending sequence
RECURSIVE SortedSeq(_)
SortedSeq(S) ==
    IF S = {} THEN <<>>
    ELSE LET m == SetMin(S) IN <<m>> \o SortedSeq(S \ {m})

\* ------------------------------------------------- dict (insertion ordered)
\* splits is a Python dict: a sequence of entries in insertion order.
DictKeys(d) == {d[i].parent : i \in 1 .. Len(d)}

DictGet(d, k) == (CHOOSE i \in 1 .. Len(d) : d[i].parent = k)

DictValue(d, k) == d[DictGet(d, k)].daughters

\* d[k] = v: an existing key keeps its place, a new key goes last
DictSet(d, k, v) ==
    IF k \in DictKeys(d)
    THEN [i \in 1 .. Len(d) |->
            IF d[i].parent = k THEN [parent |-> k, daughters |-> v] ELSE d[i]]
    ELSE Append(d, [parent |-> k, daughters |-> v])

\* d.pop(k, None) and del d[k]
DictPop(d, k) == SelectSeq(d, LAMBDA e : e.parent # k)

\* dict equality ignores insertion order: the dict as a function
DictAsMap(d) == [k \in DictKeys(d) |-> DictValue(d, k)]

\* annotations: a dict that is never iterated, a function label -> text
MapPop(m, k) == [x \in (DOMAIN m) \ {k} |-> m[x]]

MapSet(m, k, v) == [x \in (DOMAIN m) \cup {k} |-> IF x = k THEN v ELSE m[x]]

EmptyMap == [x \in {} |-> 0]

\* ------------------------------------------------------------- the volume
\* array_txn[...] read: the pending write if any, else the committed pixel
View(st, p) == IF st.txn[p] # NoWrite THEN st.txn[p] ELSE st.array[p]

\* the volume as the open transaction sees it
ViewArray(st) == [p \in Pix |-> View(st, p)]

\* a read through a store bound to the transaction, or to none
ReadPixel(st, p, inTxn) == IF inTxn THEN View(st, p) ELSE st.array[p]

\* subarr[...][ind] = value through a store bound to the transaction, or to none
WritePixels(st, ps, value, inTxn) ==
    IF inTxn
    THEN [st EXCEPT !.txn = [p \in Pix |-> IF p \in ps THEN value ELSE @[p]]]
    ELSE [st EXCEPT !.array = [p \in Pix |-> IF p \in ps THEN value ELSE @[p]]]

\* the pixels of [frame, min_y:max_y, min_x:max_x]
BoxPixels(row) ==
    {p \in Pix : /\ p[1] = row.frame
                 /\ row.min_y <= p[2] /\ p[2] < row.max_y
                 /\ row.min_x <= p[3] /\ p[3] < row.max_x}

\* ------------------------------------------------------------ to_bbox_df
\* regionprops_table of one frame: one row per nonzero label, ascending,
\* with the half-open box (min_row, min_col, max_row, max_col)
FrameLabels(vol, frame) == {vol[p] : p \in {q \in Pix : q[1] = frame}} \ {0}

RegionRow(vol, frame, label) ==
    LET ps == {p \in Pix : p[1] = frame /\ vol[p] = label}
    IN [frame |-> frame, label |-> label,
        min_y |-> SetMin({p[2] : p \in ps}), min_x |-> SetMin({p[3] : p \in ps}),
        max_y |-> SetMax({p[2] : p \in ps}) + 1, max_x |-> SetMax({p[3] : p \in ps}) + 1]

FrameRows(vol, frame) ==
    LET ls == SortedSeq(FrameLabels(vol, frame))
    IN [i \in 1 .. Len(ls) |-> RegionRow(vol, frame, ls[i])]

RECURSIVE ConcatFrames(_, _)
ConcatFrames(vol, frame) ==
    IF frame >= NumFrames THEN <<>>
    ELSE FrameRows(vol, frame) \o ConcatFrames(vol, frame + 1)

to_bbox_df(vol) == ConcatFrames(vol, 0)

\* ------------------------------------------------------ index helpers
IndexLabels(df) == {df[i].label : i \in 1 .. Len(df)}

\* self.bboxes_df.loc[(frame, trackid)]: the rows under that key
LocRows(df, frame, trackid) ==
    SelectSeq(df, LAMBDA r : r.frame = frame /\ r.label = trackid)

_get_track_bboxes(st, trackid) == SelectSeq(st.bboxes_df, LAMBDA r : r.label = trackid)

\* bboxes_df.frame of a sub-table, in row order
FrameColumn(df) == [i \in 1 .. Len(df) |-> df[i].frame]

TrackFrames(df, trackid) == {df[i].frame : i \in {j \in 1 .. Len(df) : df[j].label = trackid}}

update_track_df(st) ==
    [st EXCEPT !.track_df =
        [l \in IndexLabels(st.bboxes_df) |->
            <<SetMin(TrackFrames(st.bboxes_df, l)), SetMax(TrackFrames(st.bboxes_df, l))>>]]

_get_safe_track_id(st) ==
    IF st.bboxes_df = <<>> THEN NaNLabel ELSE SetMax(IndexLabels(st.bboxes_df)) + 1

\* an exception caught where it is raised: the operation carries on
Swallow(st, exc) == st

Raise(st, exc) == [st EXCEPT !.raised = exc]

\* one more step of the running operation: k is "read" or "write" (a pixel
\* request, bound to the transaction "txn" or to none, "store") or the structure
\* edited ("index", "splits", "annotations", all "memory")
Log(st, k, at) == [st EXCEPT !.log = Append(@, [k |-> k, at |-> at])]

Bound(inTxn) == IF inTxn THEN "txn" ELSE "store"

\* n steps of one kind in a row
LogEach(st, k, at, n) == [st EXCEPT !.log = @ \o [i \in 1 .. n |-> [k |-> k, at |-> at]]]

Ok(st) == st.raised = "none"

\* every label the index, the splits and the annotations hold now (0 if none)
RECURSIVE DaughterSet(_)
DaughterSet(d) ==
    IF d = <<>> THEN {} ELSE SeqToSet(Head(d).daughters) \cup DaughterSet(Tail(d))

LabelsHeld(st) ==
    IndexLabels(st.bboxes_df) \cup DictKeys(st.splits) \cup DaughterSet(st.splits)
        \cup DOMAIN st.annotations

MaxHeld(st) == SetMax(LabelsHeld(st) \cup {0})


\* ---------------------------------------------------------- _update_trackid
\* .loc[(frame, trackid)] raises KeyError without a row; with several rows under
\* the key it yields a table, whose columns cannot bound a slice (TypeError).
\* a relabel that writes the whole recorded box instead of the pixels equal to trackid
relabel_whole_box(st, frame, trackid, new_trackid, inTxn, skip_update) ==
    LET rows == LocRows(st.bboxes_df, frame, trackid) IN
    IF Len(rows) = 0 THEN Raise(st, "KeyError")
    ELSE IF Len(rows) > 1 THEN Raise(st, "TypeError")
    ELSE
      LET st0 == Log(st, "read", Bound(inTxn))
          st1 == Log(WritePixels(st0, BoxPixels(rows[1]), new_trackid, inTxn),
                     "write", Bound(inTxn))
          st2 == Log([st1 EXCEPT !.bboxes_df =
                        [i \in 1 .. Len(@) |->
                            IF @[i].frame = frame /\ @[i].label = trackid
                            THEN [@[i] EXCEPT !.label = new_trackid] ELSE @[i]]],
                     "index", "memory")
      IN IF skip_update THEN st2 ELSE update_track_df(st2)

_update_trackid(st, frame, trackid, new_trackid, inTxn, skip_update) ==
    LET rows == LocRows(st.bboxes_df, frame, trackid) IN
    IF Len(rows) = 0 THEN Raise(st, "KeyError")
    ELSE IF Len(rows) > 1 THEN Raise(st, "TypeError")
    ELSE
      LET row == rows[1]
          ind == {p \in BoxPixels(row) : ReadPixel(st, p, inTxn) = trackid}
          st0 == Log(st, "read", Bound(inTxn))
          st1 == Log(WritePixels(st0, ind, new_trackid, inTxn), "write", Bound(inTxn))
          st2 == Log([st1 EXCEPT !.bboxes_df =
                        [i \in 1 .. Len(@) |->
                            IF @[i].frame = frame /\ @[i].label = trackid
                            THEN [@[i] EXCEPT !.label = new_trackid] ELSE @[i]]],
                     "index", "memory")
      IN IF skip_update THEN st2 ELSE update_track_df(st2)

\* ------------------------------------------- cleanup_single_daughter_splits
\* for frame in track_df.frame: self._update_trackid(frame, daughter, parent, None, ...)
RECURSIVE FoldFrames(_, _, _, _)
FoldFrames(st, frames, daughter, parent) ==
    IF frames = <<>> \/ ~Ok(st) THEN st
    ELSE FoldFrames(_update_trackid(st, Head(frames), daughter, parent, FALSE, TRUE),
                    Tail(frames), daughter, parent)

\* for parent, daughters in self.splits.copy().items(): ...
RECURSIVE CleanupLoop(_, _)
CleanupLoop(st, copy) ==
    IF copy = <<>> \/ ~Ok(st) THEN st
    ELSE
      LET e == Head(copy) IN
      IF Len(e.daughters) = 1
      THEN LET daughter == e.daughters[1]
               frames == FrameColumn(_get_track_bboxes(st, daughter))
               st1 == FoldFrames(st, frames, daughter, e.parent)
           IN IF ~Ok(st1) THEN st1
              ELSE IF e.parent \notin DictKeys(st1.splits) THEN Raise(st1, "KeyError")
              ELSE CleanupLoop(Log([st1 EXCEPT !.splits = DictPop(@, e.parent)],
                                   "splits", "memory"),
                               Tail(copy))
      ELSE CleanupLoop(st, Tail(copy))

\* a cleanup that examines only the first split of the map
cleanup_first_split_only(st) == CleanupLoop(st, IF st.splits = <<>> THEN <<>> ELSE <<Head(st.splits)>>)

cleanup_single_daughter_splits(st) == CleanupLoop(st, st.splits)

\* -------------------------------------------------------------- delete_mask
\* the cascade of lines 123-128, run when the track has no row left
DeleteCascade(st, trackid) ==
    LET st0 == IF trackid \in DOMAIN st.annotations
               THEN Log([st EXCEPT !.annotations = MapPop(@, trackid)],
                        "annotations", "memory")
               ELSE st
        st1 == IF trackid \in DictKeys(st0.splits)
               THEN Log([st0 EXCEPT !.splits = DictPop(@, trackid)], "splits", "memory")
               ELSE st0
        st2 == IF st1.splits = <<>> THEN st1
               ELSE Log([st1 EXCEPT !.splits =
                           [i \in 1 .. Len(@) |->
                               [@[i] EXCEPT !.daughters = ListWithout(@, trackid)]]],
                        "splits", "memory")
    IN cleanup_single_daughter_splits(st2)

delete_mask(st, frame, trackid, skip_update, cleanup) ==
    LET rows == LocRows(st.bboxes_df, frame, trackid) IN
    IF Len(rows) = 0 THEN Raise(st, "KeyError")
    ELSE IF Len(rows) > 1 THEN Raise(st, "TypeError")
    ELSE
      LET row == rows[1]
          ind == {p \in BoxPixels(row) : View(st, p) = trackid}
          st0 == Log(st, "read", "txn")
          st1 == Log(WritePixels(st0, ind, 0, TRUE), "write", "txn")
          st2 == Log([st1 EXCEPT !.bboxes_df =
                        SelectSeq(@, LAMBDA r : ~(r.frame = frame /\ r.label = trackid))],
                     "index", "memory")
          st3 == IF skip_update THEN st2 ELSE update_track_df(st2)
      IN IF cleanup /\ _get_track_bboxes(st3, trackid) = <<>>
         THEN DeleteCascade(st3, trackid)
         ELSE st3

\* ----------------------------------------------------------------- add_mask
\* a mask is [shape |-> <<h, w>>, bits |-> the (y, x) cells that are True]
add_mask(st, frame, trackid, mask_origin, mask) ==
    IF mask.shape[1] + mask_origin[1] > Height THEN Raise(st, "AssertionError")
    ELSE IF mask.shape[2] + mask_origin[2] > Width THEN Raise(st, "AssertionError")
    ELSE IF mask.bits = {} THEN Raise(st, "ValueError")
    ELSE
      LET mask_min_y == SetMin({b[1] : b \in mask.bits})
          mask_min_x == SetMin({b[2] : b \in mask.bits})
          mask_max_y == SetMax({b[1] : b \in mask.bits})
          mask_max_x == SetMax({b[2] : b \in mask.bits})
          y_window == <<mask_origin[1] + mask_min_y, mask_origin[1] + mask_max_y + 1>>
          x_window == <<mask_origin[2] + mask_min_x, mask_origin[2] + mask_max_x + 1>>
          \* mask2 = mask[mask_min_y:mask_max_y+1, mask_min_x:mask_max_x+1], placed
          \* at (y_window[0], x_window[0])
          ps == {<<frame, y_window[1] + (b[1] - mask_min_y),
                          x_window[1] + (b[2] - mask_min_x)>> : b \in mask.bits}
          st1 == Log(WritePixels(st, ps, trackid, TRUE), "write", "txn")
          st2 == Log([st1 EXCEPT !.bboxes_df =
                        Append(@, [frame |-> frame, label |-> trackid,
                                   min_y |-> y_window[1], min_x |-> x_window[1],
                                   max_y |-> y_window[2], max_x |-> x_window[2]])],
                     "index", "memory")
      IN update_track_df(st2)

\* -------------------------------------------------------------- update_mask
\* an update that deletes with the cascade cleanup of a plain delete_mask
update_mask_with_cascade(st, frame, trackid, new_mask_origin, new_mask) ==
    LET st1 == delete_mask(st, frame, trackid, TRUE, TRUE)
    IN IF ~Ok(st1) THEN st1
       ELSE add_mask(st1, frame, trackid, new_mask_origin, new_mask)

update_mask(st, frame, trackid, new_mask_origin, new_mask) ==
    LET st1 == delete_mask(st, frame, trackid, TRUE, FALSE)
    IN IF ~Ok(st1) THEN st1
       ELSE add_mask(st1, frame, trackid, new_mask_origin, new_mask)

\* ---------------------------------------------------------- terminate_track
\* for frame in bboxes_df.frame: self.delete_mask(frame, trackid, txn, skip_update=True)
RECURSIVE DeleteFrames(_, _, _)
DeleteFrames(st, frames, trackid) ==
    IF frames = <<>> \/ ~Ok(st) THEN st
    ELSE DeleteFrames(delete_mask(st, Head(frames), trackid, TRUE, TRUE),
                      Tail(frames), trackid)

terminate_track(st, frame, trackid, annotation) ==
    LET frames == SelectSeq(FrameColumn(_get_track_bboxes(st, trackid)),
                            LAMBDA g : g > frame)
        st1 == DeleteFrames(st, frames, trackid)
    IN IF ~Ok(st1) THEN st1
       ELSE LET st2 == update_track_df(st1)
                st3 == Log([st2 EXCEPT !.annotations = MapSet(@, trackid, annotation)],
                           "annotations", "memory")
            IN IF trackid \in DictKeys(st3.splits)
               THEN Log([st3 EXCEPT !.splits = DictPop(@, trackid)], "splits", "memory")
               ELSE st3

\* -------------------------------------------------------------- break_track
\* for frame in bboxes_df.frame: self._update_trackid(frame, trackid, safe_track_id, txn, ...)
RECURSIVE RelabelFrames(_, _, _, _)
RelabelFrames(st, frames, trackid, new_trackid) ==
    IF frames = <<>> \/ ~Ok(st) THEN st
    ELSE RelabelFrames(_update_trackid(st, Head(frames), trackid, new_trackid, TRUE, TRUE),
                       Tail(frames), trackid, new_trackid)

\* the label break_track returned last (its return value, read by add_split)
Returned(st) == st.minted[Len(st.minted)].ret

break_track(st, new_start_frame, trackid, change_after) ==
    LET safe_track_id == _get_safe_track_id(st)
        seen == Max2(st.ever, MaxHeld(st))
        st0 == [st EXCEPT !.minted = Append(@, [ret |-> safe_track_id, seen |-> seen]),
                          !.ever = Max2(seen, safe_track_id)]
        frames == SelectSeq(FrameColumn(_get_track_bboxes(st, trackid)),
                            LAMBDA g : IF change_after THEN g >= new_start_frame
                                       ELSE g < new_start_frame)
        st1 == RelabelFrames(st0, frames, trackid, safe_track_id)
    IN IF ~Ok(st1) THEN st1
       ELSE
         LET st2 == update_track_df(st1) IN
         IF change_after
         THEN LET st3 == IF trackid \in DictKeys(st2.splits)
                         THEN Log([st2 EXCEPT !.splits =
                                     DictSet(DictPop(@, trackid), safe_track_id,
                                             DictValue(st2.splits, trackid))],
                                  "splits", "memory")
                         ELSE st2
              IN IF trackid \in DOMAIN st3.annotations
                 THEN Log([st3 EXCEPT !.annotations =
                             MapSet(MapPop(@, trackid), safe_track_id,
                                    st3.annotations[trackid])],
                          "annotations", "memory")
                 ELSE st3
         ELSE IF trackid \notin DaughterSet(st2.splits) THEN st2
         ELSE Log([st2 EXCEPT !.splits =
                     [i \in 1 .. Len(@) |->
                         IF trackid \in SeqToSet(@[i].daughters)
                         THEN [@[i] EXCEPT !.daughters =
                                 Append(ListRemove(@, trackid), safe_track_id)]
                         ELSE @[i]]],
                  "splits", "memory")

\* ---------------------------------------------------------------- add_split
\* for daughter_trackid in daughter_trackids: break_track(...); detach the daughter
RECURSIVE SplitLoop(_, _, _)
SplitLoop(st, new_start_frame, ds) ==
    IF ds = <<>> \/ ~Ok(st) THEN st
    ELSE
      LET st1 == break_track(st, new_start_frame, Head(ds), FALSE) IN
      IF ~Ok(st1) THEN st1
      ELSE SplitLoop(
             IF Head(ds) \notin DaughterSet(st1.splits) THEN st1
             ELSE Log([st1 EXCEPT !.splits =
                         [i \in 1 .. Len(@) |->
                             IF Head(ds) \in SeqToSet(@[i].daughters)
                             THEN [@[i] EXCEPT !.daughters = ListRemove(@, Head(ds))]
                             ELSE @[i]]],
                      "splits", "memory"),
             new_start_frame, Tail(ds))

add_split(st, daughter_start_frame, parent_trackid, daughter_trackids) ==
    LET st1 == break_track(st, daughter_start_frame, parent_trackid, TRUE) IN
    IF ~Ok(st1) THEN st1
    ELSE
      LET new_track_id == Returned(st1)
          ds == IF parent_trackid \in SeqToSet(daughter_trackids)
                THEN Append(ListRemove(daughter_trackids, parent_trackid), new_track_id)
                ELSE daughter_trackids
          st2 == SplitLoop(st1, daughter_start_frame, ds)
      IN IF ~Ok(st2) THEN st2
         ELSE cleanup_single_daughter_splits(
                Log([st2 EXCEPT !.splits = DictSet(@, parent_trackid, ds)],
                    "splits", "memory"))

\* -------------------------------------------------------------- swap_tracks
SwapLabel(l, trackid1, trackid2) ==
    IF l = trackid1 THEN trackid2 ELSE IF l = trackid2 THEN trackid1 ELSE l

SwapDaughters(ds, trackid1, trackid2) ==
    [i \in 1 .. Len(ds) |-> SwapLabel(ds[i], trackid1, trackid2)]

\* the pixels equal to trackid inside the boxes of its rows, read in the transaction
TrackMask(st, trackid) ==
    LET df == _get_track_bboxes(st, trackid)
    IN UNION {{p \in BoxPixels(df[i]) : View(st, p) = trackid} : i \in 1 .. Len(df)}

\* self.splits[parent] = _daughters for the entries of copy whose key stays
RECURSIVE SwapValues(_, _, _, _)
SwapValues(d, copy, trackid1, trackid2) ==
    IF copy = <<>> THEN d
    ELSE SwapValues(DictSet(d, Head(copy).parent,
                            SwapDaughters(Head(copy).daughters, trackid1, trackid2)),
                    Tail(copy), trackid1, trackid2)

(***************************************************************************)
(* Lines 87-104 iterate self.splits.items() while deleting and inserting   *)
(* keys of the same dict.  An entry whose key is neither label only gets   *)
(* its value replaced.  At the first entry keyed by trackid1 or trackid2   *)
(* the key is deleted and the other label inserted:                        *)
(*  - the other label is a key too: its value is overwritten, the dict has *)
(*    shrunk and the next step of the iterator raises RuntimeError;        *)
(*  - otherwise the new entry goes last.  With room left in the table the  *)
(*    iterator walks the remaining entries, reaches the new one and raises *)
(*    RuntimeError once every entry is rewritten; when the insertion       *)
(*    rebuilds the table (no room left: that depends on earlier            *)
(*    insertions and deletions, which the model does not track) the        *)
(*    iterator's position can lie past the rebuilt entries and the loop    *)
(*    ends there, the later entries left as they were.  resized chooses    *)
(*    between the two.                                                     *)
(***************************************************************************)
SwapSplits(d, trackid1, trackid2, resized) ==
    LET hits == {i \in 1 .. Len(d) : d[i].parent \in {trackid1, trackid2}} IN
    IF hits = {} THEN [splits |-> SwapValues(d, d, trackid1, trackid2), raised |-> "none"]
    ELSE
      LET i == SetMin(hits)
          before == SubSeq(d, 1, i - 1)
          after == SubSeq(d, i + 1, Len(d))
          _parent == IF d[i].parent = trackid1 THEN trackid2 ELSE trackid1
          _daughters == SwapDaughters(d[i].daughters, trackid1, trackid2)
          d1 == DictPop(SwapValues(d, before, trackid1, trackid2), d[i].parent)
      IN IF _parent \in DictKeys(d1)
         THEN [splits |-> DictSet(d1, _parent, _daughters), raised |-> "RuntimeError"]
         ELSE IF resized
         THEN [splits |-> DictSet(d1, _parent, _daughters), raised |-> "none"]
         ELSE [splits |-> SwapValues(DictSet(d1, _parent, _daughters), after,
                                     trackid1, trackid2),
               raised |-> "RuntimeError"]

swap_tracks(st, trackid1, trackid2, resized) ==
    LET inds1 == TrackMask(st, trackid1)
        inds2 == TrackMask(st, trackid2)
        \* one read (lines 72-74), later one write (lines 79-80), per row of either track
        nrows == Len(_get_track_bboxes(st, trackid1)) + Len(_get_track_bboxes(st, trackid2))
        st0 == LogEach(LogEach(st, "read", "txn", nrows), "write", "txn", nrows)
        st1 == WritePixels(WritePixels(st0, inds1, trackid2, TRUE), inds2, trackid1, TRUE)
        st2 == update_track_df(
                 Log([st1 EXCEPT !.bboxes_df =
                        [i \in 1 .. Len(@) |->
                            [@[i] EXCEPT !.label = SwapLabel(@, trackid1, trackid2)]]],
                     "index", "memory"))
        sw == SwapSplits(st2.splits, trackid1, trackid2, resized)
        st2a == IF st2.splits = <<>> THEN st2 ELSE Log(st2, "splits", "memory")
        st3 == [st2a EXCEPT !.splits = sw.splits, !.raised = sw.raised]
    IN IF ~Ok(st3) THEN st3
       ELSE
         LET a == st3.annotations
             a0 == MapPop(MapPop(a, trackid2), trackid1)
             \* tas[0] = pop(trackid2), tas[1] = pop(trackid1) of what is left
             has0 == trackid2 \in DOMAIN a
             has1 == trackid1 \in DOMAIN a /\ trackid1 # trackid2
             a1 == IF has0 THEN MapSet(a0, trackid1, a[trackid2]) ELSE a0
             a2 == IF has1 THEN MapSet(a1, trackid2, a[trackid1]) ELSE a1
         IN IF has0 \/ has1
            THEN Log([st3 EXCEPT !.annotations = a2], "annotations", "memory")
            ELSE st3

\* ================================================================== state
VARIABLES
    array,                  \* the committed volume: pixel -> label (0 background)
    txn,                    \* pending writes of the open transaction
    bboxes_df,              \* rows (frame, label, min_y, min_x, max_y, max_x)
    track_df,               \* label -> <<min frame, max frame>>
    splits,                 \* parent -> daughters, in insertion order
    termnation_annotations, \* label -> annotation
    raised,                 \* the exception that ended the last operation
    ever,                   \* greatest label the index, splits or annotations ever held
    minted,                 \* break_track calls of the last operation: label returned
                            \* and the greatest label held up to the call
    log,                    \* what the last operation did, in order: pixel reads and
                            \* writes issued, edits of index, splits and annotations
    pre,                    \* the state the last operation started from
    last,                   \* the last operation and its arguments
    nops                    \* operations called so far

vars == <<array, txn, bboxes_df, track_df, splits, termnation_annotations, raised,
          ever, minted, log, pre, last, nops>>

Cur ==
    [array |-> array, txn |-> txn, bboxes_df |-> bboxes_df, track_df |-> track_df,
     splits |-> splits, annotations |-> termnation_annotations, raised |-> raised,
     ever |-> ever, minted |-> <<>>, log |-> <<>>]

NoTxn == [p \in Pix |-> NoWrite]

\* ------------------------------------------------------- initial volumes
\* a parent (1) in frame 0 and its two daughters (2, 3) in frame 1
LineageVolume ==
    [p \in Pix |->
        CASE p = <<0, 0, 0>> -> 1
          [] p = <<0, 1, 1>> -> 1
          [] p = <<1, 0, 0>> -> 2
          [] p = <<1, 1, 1>> -> 3
          [] OTHER -> 0]

\* tracks 1 and 2 over both frames (2 inside the box of 1 in frame 0), 3 in frame 1
TracksVolume ==
    [p \in Pix |->
        CASE p = <<0, 0, 0>> -> 1
          [] p = <<0, 1, 1>> -> 1
          [] p = <<0, 0, 1>> -> 2
          [] p = <<1, 0, 0>> -> 1
          [] p = <<1, 0, 1>> -> 2
          [] p = <<1, 1, 1>> -> 3
          [] OTHER -> 0]

InitVolumes == {LineageVolume, TracksVolume}

InitSplits == {<<>>, <<[parent |-> 1, daughters |-> <<2, 3>>]>>}

InitAnnotations == {[l \in {3} |-> "lysis"]}

\* TrackArr(ts_array, splits, termination_annotations): the index derived from
\* the volume, then update_track_df
Init ==
    /\ array \in InitVolumes
    /\ txn = NoTxn
    /\ bboxes_df = to_bbox_df(array)
    /\ track_df = update_track_df([bboxes_df |-> bboxes_df, track_df |-> EmptyMap]).track_df
    /\ splits \in InitSplits
    /\ termnation_annotations \in InitAnnotations
    /\ raised = "none"
    /\ ever = SetMax(IndexLabels(bboxes_df) \cup DictKeys(splits) \cup DaughterSet(splits)
                       \cup DOMAIN termnation_annotations \cup {0})
    /\ minted = <<>>
    /\ log = <<>>
    /\ pre = [op |-> "init"]
    /\ last = [op |-> "init"]
    /\ nops = 0

\* ---------------------------------------------------------------- inputs
\* masks and where they are placed: two cells on a diagonal; one cell inside a
\* padded window; a window that leaves the frame
Placements ==
    { [origin |-> <<0, 0>>, mask |-> [shape |-> <<2, 2>>, bits |-> {<<0, 0>>, <<1, 1>>}]],
      [origin |-> <<0, 0>>, mask |-> [shape |-> <<2, 2>>, bits |-> {<<1, 0>>}]],
      [origin |-> <<Height - 1, Width - 1>>,
       mask |-> [shape |-> <<1, 2>>, bits |-> {<<0, 0>>, <<0, 1>>}]] }

Annotations == {"lost"}

StartFrames == 0 .. NumFrames

DaughterLists ==
    {<<>>} \cup {<<a>> : a \in Labels} \cup {<<a, b>> : a, b \in Labels}

\* --------------------------------------------------------------- actions
\* pre and last describe the call under observation, which is the last call of
\* the run; the calls before it leave them alone.  The caller gives every call
\* a transaction of its own: the one before is committed first.
CanCall == raised = "none" /\ nops < MaxOps /\ last.op = "init" /\ txn = NoTxn

Snapshot ==
    [array |-> array, txn |-> txn, bboxes_df |-> bboxes_df, track_df |-> track_df,
     splits |-> splits, annotations |-> termnation_annotations, ever |-> ever]

ApplyAs(r, l, observed) ==
    /\ array' = r.array
    /\ txn' = r.txn
    /\ bboxes_df' = r.bboxes_df
    /\ track_df' = r.track_df
    /\ splits' = r.splits
    /\ termnation_annotations' = r.annotations
    /\ raised' = r.raised
    /\ ever' = Max2(r.ever, MaxHeld(r))
    /\ nops' = nops + 1
    /\ IF observed
       THEN minted' = r.minted /\ log' = r.log /\ pre' = Snapshot /\ last' = l
       ELSE minted' = <<>> /\ log' = <<>> /\ pre' = pre /\ last' = last

Apply(r, l) ==
    \E observed \in (IF Ok(r) /\ nops + 1 < MaxOps THEN BOOLEAN ELSE {TRUE}) :
        ApplyAs(r, l, observed)

AddMask ==
    /\ CanCall
    /\ \E frame \in Frames, trackid \in Labels, pl \in Placements :
         Apply(add_mask(Cur, frame, trackid, pl.origin, pl.mask),
               [op |-> "add_mask", frame |-> frame, trackid |-> trackid, pl |-> pl])

DeleteMask ==
    /\ CanCall
    /\ \E frame \in Frames, trackid \in Labels :
         Apply(delete_mask(Cur, frame, trackid, FALSE, TRUE),
               [op |-> "delete_mask", frame |-> frame, trackid |-> trackid])

UpdateMask ==
    /\ CanCall
    /\ \E frame \in Frames, trackid \in Labels, pl \in Placements :
         Apply(update_mask(Cur, frame, trackid, pl.origin, pl.mask),
               [op |-> "update_mask", frame |-> frame, trackid |-> trackid, pl |-> pl])

SwapTracks ==
    /\ CanCall
    /\ \E trackid1 \in Labels, trackid2 \in Labels :
       \E resized \in (IF {trackid1, trackid2} \cap DictKeys(splits) = {}
                        THEN {FALSE} ELSE BOOLEAN) :
         Apply(swap_tracks(Cur, trackid1, trackid2, resized),
               [op |-> "swap_tracks", trackid1 |-> trackid1, trackid2 |-> trackid2,
                resized |-> resized])

TerminateTrack ==
    /\ CanCall
    /\ \E frame \in Frames, trackid \in Labels, annotation \in Annotations :
         Apply(terminate_track(Cur, frame, trackid, annotation),
               [op |-> "terminate_track", frame |-> frame, trackid |-> trackid,
                annotation |-> annotation])

BreakTrack ==
    /\ CanCall
    /\ \E new_start_frame \in StartFrames, trackid \in Labels, change_after \in BOOLEAN :
         Apply(break_track(Cur, new_start_frame, trackid, change_after),
               [op |-> "break_track", frame |-> new_start_frame, trackid |-> trackid,
                change_after |-> change_after])

UpdateTrackid ==
    /\ CanCall
    /\ \E frame \in Frames, trackid \in Labels, new_trackid \in Labels :
         Apply(_update_trackid(Cur, frame, trackid, new_trackid, TRUE, FALSE),
               [op |-> "_update_trackid", frame |-> frame, trackid |-> trackid,
                new_trackid |-> new_trackid])

AddSplit ==
    /\ CanCall
    /\ \E daughter_start_frame \in StartFrames, parent_trackid \in Labels,
          daughter_trackids \in DaughterLists :
         Apply(add_split(Cur, daughter_start_frame, parent_trackid, daughter_trackids),
               [op |-> "add_split", frame |-> daughter_start_frame,
                trackid |-> parent_trackid, daughters |-> daughter_trackids])

\* the caller commits the transaction: its pending writes reach the volume
Commit ==
    /\ raised = "none"
    /\ txn # NoTxn
    /\ array' = ViewArray(Cur)
    /\ txn' = NoTxn
    /\ UNCHANGED <<bboxes_df, track_df, splits, termnation_annotations, raised,
                   ever, minted, log, pre, last, nops>>

Next ==
    \/ AddMask
    \/ DeleteMask
    \/ UpdateMask
    \/ SwapTracks
    \/ TerminateTrack
    \/ BreakTrack
    \/ AddSplit
    \/ UpdateTrackid
    \/ Commit

Spec == Init /\ [][Next]_vars

\* ------------------------------------------------- runs of lineage edits
\* A second specification: from the lineage scenario, up to MaxEdits add_split
\* calls and then one delete_mask or terminate_track, which is the call under
\* observation.  The caller may name labels the index does not hold.
MaxEdits == 2

MaxEditLabel == 5

EditLabels == 1 .. MaxEditLabel

EditLists == {<<a, b>> : a, b \in EditLabels}

EditInit ==
    /\ Init
    /\ array = LineageVolume
    /\ splits # <<>>

CanEdit == raised = "none" /\ last.op = "init" /\ txn = NoTxn

EditSplit ==
    /\ CanEdit
    /\ nops < MaxEdits
    /\ \E daughter_start_frame \in StartFrames, parent_trackid \in EditLabels,
          daughter_trackids \in EditLists :
         ApplyAs(add_split(Cur, daughter_start_frame, parent_trackid, daughter_trackids),
                 [op |-> "add_split"], FALSE)

EditDelete ==
    /\ CanEdit
    /\ nops <= MaxEdits
    /\ \E frame \in Frames, trackid \in EditLabels :
         ApplyAs(delete_mask(Cur, frame, trackid, FALSE, TRUE),
                 [op |-> "delete_mask", frame |-> frame, trackid |-> trackid], TRUE)

EditTerminate ==
    /\ CanEdit
    /\ nops <= MaxEdits
    /\ \E frame \in Frames, trackid \in EditLabels, annotation \in Annotations :
         ApplyAs(terminate_track(Cur, frame, trackid, annotation),
                 [op |-> "terminate_track", frame |-> frame, trackid |-> trackid,
                  annotation |-> annotation], TRUE)

EditSwap ==
    /\ CanEdit
    /\ nops <= MaxEdits
    /\ \E trackid1 \in EditLabels, trackid2 \in Labels :
       \E resized \in (IF {trackid1, trackid2} \cap DictKeys(splits) = {}
                        THEN {FALSE} ELSE BOOLEAN) :
         ApplyAs(swap_tracks(Cur, trackid1, trackid2, resized),
                 [op |-> "swap_tracks", trackid1 |-> trackid1, trackid2 |-> trackid2,
                  resized |-> resized], TRUE)

EditBreak ==
    /\ CanEdit
    /\ nops < MaxEdits
    /\ \E new_start_frame \in StartFrames, trackid \in EditLabels,
          change_after \in BOOLEAN :
         ApplyAs(break_track(Cur, new_start_frame, trackid, change_after),
                 [op |-> "break_track", frame |-> new_start_frame, trackid |-> trackid,
                  change_after |-> change_after], TRUE)

\* the caller commits the transaction of an edit before the next call
EditCommit ==
    /\ last.op = "init"
    /\ Commit

EditNext ==
    \/ EditSplit
    \/ EditBreak
    \/ EditDelete
    \/ EditTerminate
    \/ EditSwap
    \/ EditCommit

EditSpec == EditInit /\ [][EditNext]_vars

\* ================================================================= claims
RowSet(df) == SeqToSet(df)

Committed == raised = "none" /\ txn = NoTxn

Completed(op) == last.op = op /\ raised = "none"

HasEntry(df, l) == \E i \in 1 .. Len(df) : df[i].label = l

\* the volume the transaction of the observed call started from
PreView == ViewArray(pre)

\* C1: once the operations' transaction is committed, the maintained index
\* equals, as a set of rows, the index re-derived from the volume, with one
\* row per (frame, label) that has pixels.
C1_IndexAgreesWithVolume ==
    Committed =>
        /\ RowSet(bboxes_df) = RowSet(to_bbox_df(array))
        /\ Len(bboxes_df) = Cardinality(RowSet(bboxes_df))

\* C2: after every completed operation each label that is a split parent, a
\* daughter or an annotation subject has at least one index entry.
C2_LineageLabelsIndexed ==
    raised = "none" =>
        \A l \in DictKeys(splits) \cup DaughterSet(splits) \cup DOMAIN termnation_annotations :
            HasEntry(bboxes_df, l)

NoDuplicates(s) == \A i, j \in 1 .. Len(s) : i # j => s[i] # s[j]

WellFormedSplits(d) ==
    /\ \A i \in 1 .. Len(d) : NoDuplicates(d[i].daughters)
    /\ \A i \in 1 .. Len(d) : d[i].parent \notin SeqToSet(d[i].daughters)
    /\ \A i, j \in 1 .. Len(d) :
          i # j => SeqToSet(d[i].daughters) \cap SeqToSet(d[j].daughters) = {}

\* C3: after every completed operation no daughters list has a duplicate, no
\* parent is its own daughter, and no label is in two daughters lists.
C3_DaughterListsWellFormed == raised = "none" => WellFormedSplits(splits)

\* C5: every label break_track returns is greater than every label the index,
\* the splits or the annotations held up to that call.
C5_MintedLabelsAreFresh ==
    \A i \in 1 .. Len(minted) : minted[i].ret > minted[i].seen

SingleDaughter(d) == \E i \in 1 .. Len(d) : Len(d[i].daughters) = 1

\* C4: after every completed operation no split has exactly one daughter, and
\* running cleanup_single_daughter_splits again changes nothing.
C4_NoSingleDaughterSplit ==
    raised = "none" =>
        /\ ~SingleDaughter(splits)
        /\ cleanup_single_daughter_splits(Cur) = Cur

\* a completed add_split left a second split with one daughter to collapse: the
\* parent named itself as the only daughter while another split was recorded
C4_SecondSplitCollapsed ==
    /\ Completed("add_split")
    /\ pre.splits # <<>>
    /\ last.daughters = <<last.trackid>>
    /\ last.trackid \notin DictKeys(pre.splits)
    /\ HasEntry(pre.bboxes_df, last.trackid)
    /\ last.trackid \notin DictKeys(splits)
    /\ splits # <<>>

\* C6: swap_tracks(A, B) called twice completes both times and returns the
\* pixels, the index, the annotations and the splits to their first values.
C6_SwapTwiceRestores ==
    last.op = "swap_tracks" =>
        /\ raised = "none"
        /\ \A resized \in BOOLEAN :
              LET r == swap_tracks(Cur, last.trackid1, last.trackid2, resized)
              IN /\ Ok(r)
                 /\ ViewArray(r) = PreView
                 /\ r.bboxes_df = pre.bboxes_df
                 /\ r.annotations = pre.annotations
                 /\ DictAsMap(r.splits) = DictAsMap(pre.splits)

\* C7: add_mask(f, L, origin, mask) where (f, L) had no entry, followed by
\* delete_mask(f, L), leaves every pixel and every index row as before.
C7_AddThenDeleteRestores ==
    (Completed("add_mask") /\ LocRows(pre.bboxes_df, last.frame, last.trackid) = <<>>) =>
        LET r == delete_mask(Cur, last.frame, last.trackid, FALSE, TRUE)
        IN /\ Ok(r)
           /\ ViewArray(r) = PreView
           /\ r.bboxes_df = pre.bboxes_df

\* C8: add_split(s, P, daughters) with P in daughters: P keeps its frames < s,
\* the fresh label N holds P's frames >= s, a listed daughter that starts at or
\* after s is untouched, and splits[P] is daughters with N where P stood.
C8_SplitWithParentAsDaughter ==
    (Completed("add_split") /\ last.trackid \in SeqToSet(last.daughters)) =>
        LET P == last.trackid
            s == last.frame
            N == minted[1].ret
            F == TrackFrames(pre.bboxes_df, P)
        IN /\ TrackFrames(bboxes_df, P) = {g \in F : g < s}
           /\ TrackFrames(bboxes_df, N) = {g \in F : g >= s}
           /\ \A D \in SeqToSet(last.daughters) \ {P} :
                 (/\ TrackFrames(pre.bboxes_df, D) # {}
                  /\ \A g \in TrackFrames(pre.bboxes_df, D) : g >= s)
                 => _get_track_bboxes(Cur, D) = _get_track_bboxes(pre, D)
           /\ P \in DictKeys(splits)
           /\ DictValue(splits, P) =
                 [i \in 1 .. Len(last.daughters) |->
                     IF last.daughters[i] = P THEN N ELSE last.daughters[i]]

\* C9: after terminate_track(f, L, a) the index has no entry (g, L) with g > f,
\* the entries (g, L) with g <= f and their pixels are unchanged,
\* annotations[L] = a, L is no split parent and its former daughters keep
\* their index entries.
C9_TerminatePostcondition ==
    Completed("terminate_track") =>
        LET L == last.trackid
            f == last.frame
        IN /\ \A g \in TrackFrames(bboxes_df, L) : g <= f
           /\ \A g \in Frames : g <= f =>
                 LocRows(bboxes_df, g, L) = LocRows(pre.bboxes_df, g, L)
           /\ \A p \in Pix : (p[1] <= f /\ PreView[p] = L) => View(Cur, p) = L
           /\ L \in DOMAIN termnation_annotations
           /\ termnation_annotations[L] = last.annotation
           /\ L \notin DictKeys(splits)
           /\ L \in DictKeys(pre.splits) =>
                 \A D \in SeqToSet(DictValue(pre.splits, L)) \ {L} :
                     RowSet(_get_track_bboxes(pre, D)) \subseteq RowSet(bboxes_df)

\* C10: delete_mask(f, L) that removes the last entry of L leaves L out of the
\* annotations, the split parents and every daughters list, and collapses every
\* split it reduced to one daughter (the daughter's entries now carry the
\* parent's label, the record is gone); when L keeps entries elsewhere, splits
\* and annotations are unchanged.
C10_DeleteCascade ==
    Completed("delete_mask") =>
        LET L == last.trackid IN
        IF TrackFrames(pre.bboxes_df, L) = {last.frame}
        THEN /\ L \notin DOMAIN termnation_annotations
             /\ L \notin DictKeys(splits)
             /\ L \notin DaughterSet(splits)
             /\ \A i \in 1 .. Len(pre.splits) :
                   LET e == pre.splits[i]
                       rest == ListWithout(e.daughters, L)
                   IN (e.parent # L /\ L \in SeqToSet(e.daughters) /\ Len(rest) = 1) =>
                        /\ e.parent \notin DictKeys(splits)
                        /\ \A j \in 1 .. Len(pre.bboxes_df) :
                              pre.bboxes_df[j].label = rest[1] =>
                                 /\ [pre.bboxes_df[j] EXCEPT !.label = e.parent]
                                        \in RowSet(bboxes_df)
                                 /\ rest[1] # e.parent =>
                                        pre.bboxes_df[j] \notin RowSet(bboxes_df)
        ELSE /\ splits = pre.splits
             /\ termnation_annotations = pre.annotations

\* the store, the index, the lineage and the extent table as the observed call
\* found them
Untouched ==
    /\ ViewArray(Cur) = PreView
    /\ bboxes_df = pre.bboxes_df
    /\ splits = pre.splits
    /\ termnation_annotations = pre.annotations

\* C11: an add_split call whose daughters list is empty or holds a duplicate
\* (substituting the fresh label for the parent changes neither) fails, and
\* pixels, index, splits and annotations are as before the call.
C11_MalformedSplitRejected ==
    (/\ last.op = "add_split"
     /\ (last.daughters = <<>> \/ ~NoDuplicates(last.daughters))) =>
        /\ raised # "none"
        /\ Untouched

\* C12: add_mask(f, L, ...) on a (f, L) that already has a row fails and changes
\* neither pixels nor index; so the index never holds two rows under one
\* (frame, label) key.
C12_AddMaskConflict ==
    /\ (/\ last.op = "add_mask"
        /\ LocRows(pre.bboxes_df, last.frame, last.trackid) # <<>>) =>
           /\ raised # "none"
           /\ Untouched
    /\ \A i, j \in 1 .. Len(bboxes_df) :
          (bboxes_df[i].frame = bboxes_df[j].frame /\ bboxes_df[i].label = bboxes_df[j].label)
             => i = j

\* C13: after every completed operation _track_df has a row for exactly the
\* labels of bboxes_df, holding the least and the greatest frame of the label's
\* rows.
C13_ExtentTableCurrent ==
    raised = "none" =>
        /\ DOMAIN track_df = IndexLabels(bboxes_df)
        /\ \A l \in IndexLabels(bboxes_df) :
              track_df[l] = <<SetMin(TrackFrames(bboxes_df, l)),
                              SetMax(TrackFrames(bboxes_df, l))>>

\* what a call swap_tracks(A, B) should make of a pixel value
Swapped(v, A, B) == IF v = A THEN B ELSE IF v = B THEN A ELSE v

\* C14: in one swap_tracks(A, B) call every pixel read is issued before the
\* first pixel write, and afterwards each pixel that was A is B, each that was B
\* is A and no other pixel has changed.
C14_SwapReadsBeforeWrites ==
    last.op = "swap_tracks" =>
        /\ \A i, j \in 1 .. Len(log) :
              (log[i].k = "write" /\ log[j].k = "read") => j < i
        /\ \A p \in Pix :
              View(Cur, p) = Swapped(PreView[p], last.trackid1, last.trackid2)

StructuralEdits == {"index", "splits", "annotations"}

MultiWrite == {"swap_tracks", "break_track", "add_split", "terminate_track"}

\* C15: in a multi-write operation (swap_tracks, break_track, add_split,
\* terminate_track) no edit of bboxes_df, splits or the annotations is applied
\* before the last pixel write of the operation has been issued
C15_EditsStagedAfterWrites ==
    last.op \in MultiWrite =>
        \A i, j \in 1 .. Len(log) :
            (log[i].k \in StructuralEdits /\ log[j].k = "write") => j < i

PixelEvents == {"read", "write"}

\* C16: every pixel read and write of an add_split or delete_mask call, those of
\* the single-daughter collapse included, is issued under the caller's
\* transaction, and until that transaction is committed the committed volume is
\* the one the call started from
C16_FoldInsideTransaction ==
    last.op \in {"add_split", "delete_mask"} =>
        /\ \A i \in 1 .. Len(log) : log[i].k \in PixelEvents => log[i].at = "txn"
        /\ txn # NoTxn => array = pre.array

\* the frames of F = frames of L that break_track(s, L, change_after) hands to N
MovedFrames(F, s, change_after) ==
    {g \in F : IF change_after THEN g >= s ELSE g < s}

\* the index with the rows of L in the moved frames put under N, boxes as they were
Partitioned(df, L, N, moved) ==
    [i \in 1 .. Len(df) |->
        IF df[i].label = L /\ df[i].frame \in moved THEN [df[i] EXCEPT !.label = N]
        ELSE df[i]]

\* the splits with the key L renamed to N, daughters as they were
Rekeyed(d, L, N) ==
    IF L \notin DictKeys(d) THEN DictAsMap(d)
    ELSE [k \in (DictKeys(d) \ {L}) \cup {N} |->
             IF k = N THEN DictValue(d, L) ELSE DictValue(d, k)]

\* C17: break_track(s, L, change_after) returns a label N the index did not
\* hold; N takes the entries of L at the frames >= s (change_after) or < s
\* (otherwise), L keeps the other entries, boxes and the entries of other labels
\* stay as they were; with change_after the split keyed by L and the annotation
\* of L move to N, otherwise N replaces L in every daughters list holding L and
\* each list keeps its length
C17_BreakTrackPartition ==
    Completed("break_track") =>
        LET L == last.trackid
            N == minted[Len(minted)].ret
            F == TrackFrames(pre.bboxes_df, L)
            moved == MovedFrames(F, last.frame, last.change_after)
        IN /\ N \notin IndexLabels(pre.bboxes_df)
           /\ bboxes_df = Partitioned(pre.bboxes_df, L, N, moved)
           /\ TrackFrames(bboxes_df, N) = moved
           /\ TrackFrames(bboxes_df, L) = F \ moved
           /\ IF last.change_after
              THEN /\ DictAsMap(splits) = Rekeyed(pre.splits, L, N)
                   /\ termnation_annotations =
                        IF L \in DOMAIN pre.annotations
                        THEN MapSet(MapPop(pre.annotations, L), N, pre.annotations[L])
                        ELSE pre.annotations
              ELSE /\ termnation_annotations = pre.annotations
                   /\ Len(splits) = Len(pre.splits)
                   /\ \A i \in 1 .. Len(splits) :
                        /\ splits[i].parent = pre.splits[i].parent
                        /\ Len(splits[i].daughters) = Len(pre.splits[i].daughters)
                        /\ SeqToSet(splits[i].daughters) =
                             IF L \in SeqToSet(pre.splits[i].daughters)
                             THEN (SeqToSet(pre.splits[i].daughters) \ {L}) \cup {N}
                             ELSE SeqToSet(pre.splits[i].daughters)

\* C18: _update_trackid and update_mask leave splits and the termination
\* annotations exactly as they were, also when the replaced entry is the only
\* entry of the label in the index
C18_LineageUntouchedByRelabel ==
    last.op \in {"_update_trackid", "update_mask"} =>
        /\ splits = pre.splits
        /\ termnation_annotations = pre.annotations

\* a completed update_mask of the only entry of a label that is a daughter or
\* is annotated
C18_OnlyEntryReplaced ==
    /\ Completed("update_mask")
    /\ Len(_get_track_bboxes(pre, last.trackid)) = 1
    /\ last.trackid \in DaughterSet(pre.splits) \cup DOMAIN pre.annotations

MissingKey == LocRows(pre.bboxes_df, last.frame, last.trackid) = <<>>

\* C19: delete_mask(f, L) and _update_trackid(f, L, new) called when the index
\* has no (f, L) entry raise KeyError before any pixel write is issued, and
\* pixels, bboxes_df, _track_df, splits and annotations are as before the call;
\* update_mask, which encloses delete_mask, passes the error on to its caller
C19_MissingKeyFailsWithoutEffect ==
    (last.op \in {"delete_mask", "_update_trackid", "update_mask"} /\ MissingKey) =>
        /\ raised = "KeyError"
        /\ \A i \in 1 .. Len(log) : log[i].k # "write"
        /\ Untouched
        /\ track_df = pre.track_df

\* a delete_mask call for a key the index does not hold has raised
C19_DeleteOfMissingKey ==
    /\ last.op = "delete_mask"
    /\ MissingKey
    /\ raised = "KeyError"

LabelTargeted == {"delete_mask", "_update_trackid", "break_track", "terminate_track"}

\* the frames in which the observed call edits label L
AffectedFrames ==
    LET F == TrackFrames(pre.bboxes_df, last.trackid) IN
    IF last.op = "break_track" THEN MovedFrames(F, last.frame, last.change_after)
    ELSE IF last.op = "terminate_track" THEN {g \in F : g > last.frame}
    ELSE {last.frame}

\* pixel p lay in a recorded box of label l when the observed call began
InRecordedBox(p, l) ==
    \E i \in 1 .. Len(pre.bboxes_df) :
        /\ pre.bboxes_df[i].label = l
        /\ pre.bboxes_df[i].frame = p[1]
        /\ p \in BoxPixels(pre.bboxes_df[i])

Foldable ==
    IF last.op \in {"delete_mask", "terminate_track"} THEN DaughterSet(pre.splits)
    ELSE {}

=============================================================================
